---- MODULE Spec2Model ----
(***************************************************************************)
(* Model of src/vimwiki_rename_link.rs: the link matcher (three regular    *)
(* expressions), the path resolver, the extension-tolerant comparison of   *)
(* AbsolutePath and Wiki::replace_links.                                   *)
(*                                                                         *)
(* Text is a sequence of one-character strings, so that the matcher, trim, *)
(* clean and the extension functions work on characters as the code does.  *)
(* Option<&str> is modelled by the empty sequence for None where the value *)
(* can never be empty (prefix, file name), and by a flag beside the value  *)
(* where Some("") is possible (extension, relative path).                  *)
(***************************************************************************)
EXTENDS Integers, Sequences, FiniteSets, TLC

VARIABLES content,      \* the document text, rewritten pass by pass
          prev,         \* the text the last pass read
          log,          \* the matches of the last pass, in order
          pc,           \* position inside replace_links: md, wiki, include, done
          round,        \* number of the rename being applied
          contentPath,  \* Wiki.content_path
          from,         \* rename source, an AbsolutePath
          to,           \* rename target, an AbsolutePath
          probe         \* inputs and result of a single resolver/comparator call

vars == <<content, prev, log, pc, round, contentPath, from, to, probe>>

----------------------------------------------------------------------------
(* Characters and words *)

Diary == <<"d","i","a","r","y">>
File == <<"f","i","l","e">>
Local == <<"l","o","c","a","l">>
Prefixes == <<Diary, File, Local>>
None == <<>>

\* char::is_whitespace, on the characters the documents use
IsWhitespace(c) == c \in {" ", "\n", "\t"}

StartsAt(text, i, w) ==
    /\ i >= 1
    /\ i + Len(w) - 1 <= Len(text)
    /\ SubSeq(text, i, i + Len(w) - 1) = w

StartsWith(text, w) == StartsAt(text, 1, w)

RECURSIVE TrimStart(_)
TrimStart(s) ==
    IF s # <<>> /\ IsWhitespace(Head(s)) THEN TrimStart(Tail(s)) ELSE s

RECURSIVE TrimEnd(_)
TrimEnd(s) ==
    IF s # <<>> /\ IsWhitespace(s[Len(s)])
    THEN TrimEnd(SubSeq(s, 1, Len(s) - 1)) ELSE s

\* str::trim
Trim(s) == TrimEnd(TrimStart(s))

\* str::trim_start_matches('/')
RECURSIVE TrimStartSlashes(_)
TrimStartSlashes(s) ==
    IF s # <<>> /\ Head(s) = "/" THEN TrimStartSlashes(Tail(s)) ELSE s

\* str::contains
Contains(s, w) == \E i \in 1..Len(s) : StartsAt(s, i, w)

----------------------------------------------------------------------------
(* std::path and the path crates, on path strings *)

IsAbsolute(p) == p # <<>> /\ Head(p) = "/"

\* the segments between the separators, empty ones dropped
RECURSIVE SegsFrom(_, _, _)
SegsFrom(p, i, cur) ==
    IF i > Len(p)
    THEN IF cur = <<>> THEN <<>> ELSE <<cur>>
    ELSE IF p[i] = "/"
         THEN (IF cur = <<>> THEN <<>> ELSE <<cur>>) \o SegsFrom(p, i + 1, <<>>)
         ELSE SegsFrom(p, i + 1, Append(cur, p[i]))

Segs(p) == SegsFrom(p, 1, <<>>)

RECURSIVE JoinSegs(_)
JoinSegs(segs) ==
    IF segs = <<>> THEN <<>>
    ELSE IF Len(segs) = 1 THEN segs[1]
    ELSE segs[1] \o <<"/">> \o JoinSegs(Tail(segs))

Dot == <<".">>
DotDot == <<".", ".">>

\* path_clean::clean: drop "." and empty segments, let ".." remove the segment
\* before it, drop ".." at the root, keep a leading ".." of a relative path
RECURSIVE CleanSegs(_, _, _)
CleanSegs(segs, out, abs) ==
    IF segs = <<>> THEN out
    ELSE LET s == Head(segs) IN
         IF s = Dot THEN CleanSegs(Tail(segs), out, abs)
         ELSE IF s = DotDot
              THEN IF out # <<>> /\ out[Len(out)] # DotDot
                   THEN CleanSegs(Tail(segs), SubSeq(out, 1, Len(out) - 1), abs)
                   ELSE IF abs THEN CleanSegs(Tail(segs), out, abs)
                        ELSE CleanSegs(Tail(segs), Append(out, s), abs)
              ELSE CleanSegs(Tail(segs), Append(out, s), abs)

Clean(p) ==
    LET out == CleanSegs(Segs(p), <<>>, IsAbsolute(p)) IN
    IF IsAbsolute(p) THEN <<"/">> \o JoinSegs(out)
    ELSE IF out = <<>> THEN Dot ELSE JoinSegs(out)

\* Path::components: the root, then the segments; "." is kept only as the
\* first component of a relative path
Components(p) ==
    LET segs == Segs(p)
        keep == SelectSeq(segs, LAMBDA s : s # Dot)
    IN  IF IsAbsolute(p) THEN <<<<"/">>>> \o keep
        ELSE IF segs # <<>> /\ Head(segs) = Dot THEN <<Dot>> \o keep
        ELSE keep

\* PathBuf from components (PathBuf::push of each)
RECURSIVE FromComponents(_)
FromComponents(comps) ==
    IF comps = <<>> THEN <<>>
    ELSE IF Head(comps) = <<"/">> THEN <<"/">> \o JoinSegs(Tail(comps))
    ELSE JoinSegs(comps)

\* Path::file_name; None is the empty sequence
FileName(p) ==
    LET comps == Components(p) IN
    IF comps = <<>> THEN None
    ELSE LET last == comps[Len(comps)] IN
         IF last \in {<<"/">>, Dot, DotDot} THEN None ELSE last

\* index of the last "." of a file name, 0 when there is none
RECURSIVE LastDot(_, _)
LastDot(f, i) ==
    IF i = 0 THEN 0 ELSE IF f[i] = "." THEN i ELSE LastDot(f, i - 1)

\* Path::extension().is_some(): a dot that is not the first character
HasExtension(p) ==
    LET f == FileName(p) IN f # None /\ LastDot(f, Len(f)) > 1

\* Path::extension(), for a path that has one
Extension(p) ==
    LET f == FileName(p) IN SubSeq(f, LastDot(f, Len(f)) + 1, Len(f))

\* Path::file_stem
FileStem(p) ==
    LET f == FileName(p) IN
    IF HasExtension(p) THEN SubSeq(f, 1, LastDot(f, Len(f)) - 1) ELSE f

\* Path::with_extension(""): the buffer cut at the end of the file stem;
\* unchanged when there is no file name
WithExtensionEmpty(p) ==
    IF FileName(p) = None THEN p
    ELSE LET q == IF p[Len(p)] = "/" /\ Len(p) > 1 THEN SubSeq(p, 1, Len(p) - 1) ELSE p
         IN  SubSeq(q, 1, Len(q) - Len(FileName(p)) + Len(FileStem(p)))

\* PathBuf == PathBuf compares components
PathEq(p, q) == Components(p) = Components(q)

\* Path::parent, for a path that has one
Parent(p) ==
    LET comps == Components(p) IN FromComponents(SubSeq(comps, 1, Len(comps) - 1))

\* Path::join
Join(base, p) ==
    IF IsAbsolute(p) THEN p
    ELSE IF base = <<>> THEN p
    ELSE IF base[Len(base)] = "/" THEN base \o p
    ELSE base \o <<"/">> \o p

----------------------------------------------------------------------------
(* pathdiff::diff_paths(path, base); the result is [some, path] *)

ParentDirs(n) == [i \in 1..n |-> DotDot]

RECURSIVE DiffLoop(_, _, _)
DiffLoop(ita, itb, comps) ==
    IF ita = <<>> /\ itb = <<>> THEN [some |-> TRUE, comps |-> comps]
    ELSE IF itb = <<>> THEN [some |-> TRUE, comps |-> comps \o ita]
    ELSE IF ita = <<>> THEN DiffLoop(ita, Tail(itb), Append(comps, DotDot))
    ELSE LET a == Head(ita)
             b == Head(itb)
         IN  IF comps = <<>> /\ a = b THEN DiffLoop(Tail(ita), Tail(itb), comps)
             ELSE IF b = Dot THEN DiffLoop(Tail(ita), Tail(itb), Append(comps, a))
             ELSE IF b = DotDot THEN [some |-> FALSE, comps |-> <<>>]
             ELSE [some |-> TRUE,
                   comps |-> comps \o ParentDirs(Len(itb)) \o ita]

DiffPaths(path, base) ==
    IF IsAbsolute(path) # IsAbsolute(base)
    THEN IF IsAbsolute(path) THEN [some |-> TRUE, path |-> path]
         ELSE [some |-> FALSE, path |-> <<>>]
    ELSE LET r == DiffLoop(Components(path), Components(base), <<>>) IN
         [some |-> r.some, path |-> FromComponents(r.comps)]

----------------------------------------------------------------------------
(* AbsolutePath, Link and the path functions of Wiki *)

WikiRoot == <<"/", "w">>

AbsolutePathNew(p) == Clean(p)

is_in_diary(p) == Contains(p, <<"/">> \o Diary \o <<"/">>)

\* None is the empty sequence: a file name is never empty
get_file_name(p) == FileName(WithExtensionEmpty(p))

\* a comparison that strips the extension whether or not both carry one
AbsolutePathEq_AlwaysStrip(a, b) ==
    PathEq(WithExtensionEmpty(a), WithExtensionEmpty(b))

AbsolutePathEq(a, b) ==
    IF HasExtension(a) /\ HasExtension(b)
    THEN PathEq(a, b)
    ELSE PathEq(WithExtensionEmpty(a), WithExtensionEmpty(b))

LinkNew(prefix, path) == [prefix |-> prefix, path |-> Trim(path)]

LinkDisplay(link) ==
    (IF link.prefix = None THEN <<>> ELSE link.prefix \o <<":">>) \o link.path

\* a resolver that lets a leading "/" win over the diary prefix
get_absolute_path_SlashFirst(link, cp) ==
    LET link_path == TrimStartSlashes(link.path)
        path == IF StartsWith(link.path, <<"/">>)
                THEN Join(WikiRoot, link_path)
                ELSE IF link.prefix = Diary
                     THEN Join(Join(WikiRoot, Diary), link_path)
                     ELSE Join(Parent(cp), link_path)
    IN  AbsolutePathNew(path)

get_absolute_path(link, cp) ==
    LET link_path == TrimStartSlashes(link.path)
        path == IF link.prefix = Diary
                THEN Join(Join(WikiRoot, Diary), link_path)
                ELSE IF StartsWith(link.path, <<"/">>)
                     THEN Join(WikiRoot, link_path)
                     ELSE Join(Parent(cp), link_path)
    IN  AbsolutePathNew(path)

get_relative_path(t, cp) == DiffPaths(WithExtensionEmpty(t), Parent(cp))

----------------------------------------------------------------------------
(* The three regular expressions.  The regex crate reports the match a    *)
(* backtracking matcher finds first: the leftmost start, a greedy operator *)
(* trying its longest repetition first, a lazy one its shortest.  `.`     *)
(* does not match a line break; [^#|] does.                                *)

NoMatch == [s |-> 0, e |-> 0, left |-> <<>>, prefix |-> None,
            path |-> <<>>, right |-> <<>>]

\* position of the line break that ends the line of position i, or Len + 1
RECURSIVE LineEnd(_, _)
LineEnd(text, i) ==
    IF i > Len(text) \/ text[i] = "\n" THEN i ELSE LineEnd(text, i + 1)

\* the last place in lo..hi where w starts, 0 when there is none
RECURSIVE LastStart(_, _, _, _)
LastStart(text, lo, hi, w) ==
    IF hi < lo THEN 0
    ELSE IF StartsAt(text, hi, w) THEN hi
    ELSE LastStart(text, lo, hi - 1, w)

\* (?P<right>(#.*)?(\|.*)*CLOSE) of DEFAULT_LINK_RE and WIKI_INCLUDE_RE,
\* (?P<right>(#.*)?\)) of MD_LINK_RE, tried at position e: the position after
\* the match, 0 when right does not match there.  After # or | the greedy .*
\* runs to the last closing delimiter of the line.
LastClose(re, j) == IF j = 0 THEN 0 ELSE j + Len(re.close)

RightEnd(re, text, e) ==
    IF StartsAt(text, e, re.close) THEN e + Len(re.close)
    ELSE IF e <= Len(text) /\ text[e] \in re.tails
         THEN LastClose(re, LastStart(text, e + 1,
                            LineEnd(text, e) - Len(re.close), re.close))
         ELSE 0

\* (?P<path>[^#|]+?) from position p, at least the character at p: the first
\* end e at which right matches, 0 when a # or | stops the path before that
RECURSIVE PathEnd(_, _, _)
PathEnd(re, text, e) ==
    IF e > Len(text) THEN 0
    ELSE IF RightEnd(re, text, e) # 0 THEN e
    ELSE IF text[e] \in {"#", "|"} THEN 0
    ELSE PathEnd(re, text, e + 1)

PathFrom(re, text, p) ==
    IF p > Len(text) \/ text[p] \in {"#", "|"} THEN 0 ELSE PathEnd(re, text, p + 1)

\* the prefix word that is followed by ":" at position p, None otherwise
PrefixAt(text, p) ==
    IF StartsAt(text, p, Diary \o <<":">>) THEN Diary
    ELSE IF StartsAt(text, p, File \o <<":">>) THEN File
    ELSE IF StartsAt(text, p, Local \o <<":">>) THEN Local
    ELSE None

\* the captures of a match: left spans s..p-1, the path q..e-1, right e..r-1
Captures(text, s, p, w, q, e, r) ==
    [s |-> s, e |-> r, left |-> SubSeq(text, s, p - 1), prefix |-> w,
     path |-> SubSeq(text, q, e - 1), right |-> SubSeq(text, e, r - 1)]

\* (?P<path>..)(?P<right>..) at p, the prefix group skipped
WithoutPrefix(re, text, s, p, e) ==
    IF e = 0 THEN NoMatch
    ELSE Captures(text, s, p, None, p, e, RightEnd(re, text, e))

\* the prefix w at p, the path from q
WithPrefix(re, text, s, p, w, q, e) ==
    IF e = 0 THEN WithoutPrefix(re, text, s, p, PathFrom(re, text, p))
    ELSE Captures(text, s, p, w, q, e, RightEnd(re, text, e))

\* ((?P<prefix>diary|file|local):)?(?P<path>..)(?P<right>..) after a left
\* that spans s..p-1: the prefix is tried first, then the match without it
AfterLeftPrefix(re, text, s, p, w) ==
    IF w = None THEN WithoutPrefix(re, text, s, p, PathFrom(re, text, p))
    ELSE WithPrefix(re, text, s, p, w, p + Len(w) + 1,
                    PathFrom(re, text, p + Len(w) + 1))

AfterLeft(re, text, s, p) == AfterLeftPrefix(re, text, s, p, PrefixAt(text, p))

\* number of whitespace characters from position i on
RECURSIVE SpacesAt(_, _)
SpacesAt(text, i) ==
    IF i <= Len(text) /\ IsWhitespace(text[i]) THEN 1 + SpacesAt(text, i + 1) ELSE 0

\* (?P<left>OPEN\s*): the longest run of whitespace first
RECURSIVE WikiLeft(_, _, _, _)

WikiLeftTry(re, text, s, k, m) ==
    IF m.s # 0 \/ k = 0 THEN m ELSE WikiLeft(re, text, s, k - 1)

WikiLeft(re, text, s, k) ==
    WikiLeftTry(re, text, s, k, AfterLeft(re, text, s, s + Len(re.open) + k))

\* (?P<left>\[.*\]\(): the last "](" of the line first; j is the position
\* of the candidate "]"
RECURSIVE MdLeft(_, _, _, _)

MdLeftTry(re, text, s, j, m) ==
    IF m.s # 0 THEN m ELSE MdLeft(re, text, s, j - 1)

MdLeftAt(re, text, s, j) ==
    IF j = 0 THEN NoMatch
    ELSE MdLeftTry(re, text, s, j, AfterLeft(re, text, s, j + 2))

MdLeft(re, text, s, hi) ==
    MdLeftAt(re, text, s, LastStart(text, s + 1, hi, <<"]", "(">>))

\* the match that starts at s, NoMatch when none does
MatchAt(re, text, s) ==
    IF ~StartsAt(text, s, re.open) THEN NoMatch
    ELSE IF re.md THEN MdLeft(re, text, s, LineEnd(text, s + 1) - 2)
    ELSE WikiLeft(re, text, s, SpacesAt(text, s + Len(re.open)))

\* Regex::captures at or after position i: the leftmost match
RECURSIVE FindFrom(_, _, _)

FindTry(re, text, i, m) ==
    IF m.s # 0 THEN m ELSE FindFrom(re, text, i + 1)

FindFrom(re, text, i) ==
    IF i > Len(text) THEN NoMatch
    ELSE FindTry(re, text, i, MatchAt(re, text, i))

DEFAULT_LINK_RE ==
    [md |-> FALSE, open |-> <<"[", "[">>, close |-> <<"]", "]">>, tails |-> {"#", "|"}]

WIKI_INCLUDE_RE ==
    [md |-> FALSE, open |-> <<"{", "{">>, close |-> <<"}", "}">>, tails |-> {"#", "|"}]

MD_LINK_RE ==
    [md |-> TRUE, open |-> <<"[">>, close |-> <<")">>, tails |-> {"#"}]

----------------------------------------------------------------------------
(* Wiki::replace_links *)

\* a `replaced` that re-emits every original prefix, diary included
Replaced_KeepEveryPrefix(caps, cp, t) ==
    LET link == LinkNew(caps.prefix, caps.path) IN
    IF is_in_diary(t)
    THEN IF get_file_name(t) # None
         THEN Diary \o <<":">> \o get_file_name(t)
         ELSE LinkDisplay(link)
    ELSE LET rel == get_relative_path(t, cp) IN
         IF rel.some
         THEN IF caps.prefix # None
              THEN caps.prefix \o <<":">> \o rel.path
              ELSE rel.path
         ELSE LinkDisplay(link)

\* whether the closure rewrites the match: its link resolves to `from`
Resolves(caps, cp, f) ==
    AbsolutePathEq(get_absolute_path(LinkNew(caps.prefix, caps.path), cp), f)

\* let replaced = ...: the prefix and path text written for a link that
\* resolves to `from`
Replaced(caps, cp, t) ==
    LET link == LinkNew(caps.prefix, caps.path) IN
    IF is_in_diary(t)
    THEN IF get_file_name(t) # None
         THEN Diary \o <<":">> \o get_file_name(t)
         ELSE LinkDisplay(link)
    ELSE LET rel == get_relative_path(t, cp) IN
         IF rel.some
         THEN IF caps.prefix # None /\ caps.prefix # Diary
              THEN caps.prefix \o <<":">> \o rel.path
              ELSE rel.path
         ELSE LinkDisplay(link)

\* a closure that rebuilds a link it does not rewrite from its captures
Replace_RebuildsOthers(text, caps, cp, f, t) ==
    IF ~Resolves(caps, cp, f)
    THEN caps.left \o LinkDisplay(LinkNew(caps.prefix, caps.path)) \o caps.right
    ELSE caps.left \o Replaced(caps, cp, t)
         \o (IF StartsWith(caps.right, <<"|">>)
             THEN <<" ">> \o caps.right
             ELSE caps.right)

\* a closure that puts a space before every right capture
Replace_AlwaysSpace(text, caps, cp, f, t) ==
    IF ~Resolves(caps, cp, f)
    THEN SubSeq(text, caps.s, caps.e - 1)
    ELSE caps.left \o Replaced(caps, cp, t) \o <<" ">> \o caps.right

\* the closure `replace`: the text that takes the place of the match
Replace(text, caps, cp, f, t) ==
    IF ~Resolves(caps, cp, f)
    THEN SubSeq(text, caps.s, caps.e - 1)
    ELSE caps.left \o Replaced(caps, cp, t)
         \o (IF StartsWith(caps.right, <<"|">>)
             THEN <<" ">> \o caps.right
             ELSE caps.right)

\* Regex::replace_all: the matches from left to right, each search starting
\* where the last match ended; the text between matches is copied.  Beside
\* the new text it returns one record per match: the captures, where the match
\* was read (s, e), where its replacement was written (os, oe) and whether
\* the closure rewrote it.
RECURSIVE ReplaceAll(_, _, _, _, _, _, _, _)

\* one match m: new is the text written before it, rep the closure's result
Emit(pass, re, text, cp, f, t, acc, m, new, rep) ==
    ReplaceAll(pass, re, text, m.e, cp, f, t,
               [out |-> new \o rep,
                log |-> Append(acc.log,
                    [pass |-> pass, s |-> m.s, e |-> m.e,
                     left |-> m.left, prefix |-> m.prefix, path |-> m.path,
                     right |-> m.right,
                     os |-> Len(new) + 1, oe |-> Len(new) + Len(rep) + 1,
                     rewritten |-> Resolves(m, cp, f)])])

Step(pass, re, text, last, cp, f, t, acc, m) ==
    IF m.s = 0
    THEN [out |-> acc.out \o SubSeq(text, last, Len(text)), log |-> acc.log]
    ELSE Emit(pass, re, text, cp, f, t, acc, m,
              acc.out \o SubSeq(text, last, m.s - 1), Replace(text, m, cp, f, t))

ReplaceAll(pass, re, text, last, cp, f, t, acc) ==
    Step(pass, re, text, last, cp, f, t, acc, FindFrom(re, text, last))

RunPass(pass, re, text, cp, f, t) ==
    ReplaceAll(pass, re, text, 1, cp, f, t, [out |-> <<>>, log |-> <<>>])

\* replace_links as one function: the three passes in the order of the code
replace_links(text, cp, f, t) ==
    LET c1 == RunPass("md", MD_LINK_RE, text, cp, f, t).out
        c2 == RunPass("wiki", DEFAULT_LINK_RE, c1, cp, f, t).out
    IN  RunPass("include", WIKI_INCLUDE_RE, c2, cp, f, t).out

----------------------------------------------------------------------------
(* The documents, contexts and renames the model runs over.  The wiki is  *)
(* /w; b is a directory of it, n.m the document, a the file the links      *)
(* name, m a file extension.                                               *)

MaxLinks == 2
MaxRenames == 2

\* one link of each shape the matcher distinguishes; one ends its line
Items ==
    { <<"[", "[", "a", "|", "d", "]", "]">>,  \* [[a|d]],
      <<"[", "[", " ", "a", "#", "h", "]", "]">>,  \* [[ a#h]],
      <<"[", "d", "]", "(", "a", ")">>,  \* [d](a),
      <<"[", "d", "]", "(", "f", "i", "l", "e", ":", "a", ".", "m", "#", "h", ")", "\n">>,  \* [d](file:a.m#h)\n,
      <<"{", "{", "l", "o", "c", "a", "l", ":", "a", "|", "d", "}", "}">>,  \* {{local:a|d}},
      <<"[", "[", " ", "]", "]">>,  \* [[ ]],
      <<"[", "[", "d", "i", "a", "r", "y", ":", "a", "]", "]">>,  \* [[diary:a]],
      <<"[", "[", "x", "|", "[", "d", "]", "(", "/", "b", "/", "a", ")", "]", "]">>  \* [[x|[d](/b/a)]]
    }

\* documents of n links
RECURSIVE DocsOf(_)
DocsOf(n) ==
    IF n = 1 THEN Items
    ELSE { d \o <<" ">> \o i : d \in DocsOf(n - 1), i \in Items }

Docs == UNION { DocsOf(n) : n \in 1..MaxLinks }

\* /w/b/n.m and /w/n.m
ContentPaths ==
    { <<"/", "w", "/", "b", "/", "n", ".", "m">>,
      <<"/", "w", "/", "n", ".", "m">> }

\* the `from` arguments of rename: /w/b/a.m, /w/diary/./a.m, /w/b.m
Froms ==
    { <<"/", "w", "/", "b", "/", "a", ".", "m">>,
      <<"/", "w", "/", "d", "i", "a", "r", "y", "/", ".", "/", "a", ".", "m">>,
      <<"/", "w", "/", "b", ".", "m">> }

\* the `to` arguments of rename: /w/b/r.m, /w/r.m, /w/diary/e.m,
\* /w/diary/s/e.m, /w/b/diary/e.m and the relative r.m
Tos ==
    { <<"/", "w", "/", "b", "/", "r", ".", "m">>,
      <<"/", "w", "/", "r", ".", "m">>,
      <<"/", "w", "/", "d", "i", "a", "r", "y", "/", "e", ".", "m">>,
      <<"/", "w", "/", "d", "i", "a", "r", "y", "/", "s", "/", "e", ".", "m">>,
      <<"/", "w", "/", "b", "/", "d", "i", "a", "r", "y", "/", "e", ".", "m">>,
      <<"r", ".", "m">> }

\* the `to` argument of a later rename of the new target: /w/b/z.m
LaterTos ==
    { <<"/", "w", "/", "b", "/", "z", ".", "m">> }

NoProbe == [kind |-> "none"]

----------------------------------------------------------------------------
(* rename and replace_links as a state machine: one document of the tree, *)
(* the three passes of replace_links one after the other, then a later     *)
(* rename of the new target over the rewritten document.                   *)

\* rename: from_path and to_path are built once, then a document is read
Init ==
    /\ content \in Docs
    /\ prev = <<>>
    /\ log = <<>>
    /\ pc = "md"
    /\ round = 1
    /\ contentPath \in ContentPaths
    /\ from \in { AbsolutePathNew(f) : f \in Froms }
    /\ to \in { AbsolutePathNew(t) : t \in Tos }
    /\ probe = NoProbe

\* one replace_all of replace_links, over the text the last one returned
Pass(here, re, r) ==
    /\ content' = r.out
    /\ log' = log \o r.log
    /\ prev' = Append(prev, content)
    /\ UNCHANGED <<round, contentPath, from, to, probe>>

MdPass ==
    /\ pc = "md"
    /\ pc' = "wiki"
    /\ Pass("md", MD_LINK_RE, RunPass("md", MD_LINK_RE, content, contentPath, from, to))

WikiPass ==
    /\ pc = "wiki"
    /\ pc' = "include"
    /\ Pass("wiki", DEFAULT_LINK_RE,
            RunPass("wiki", DEFAULT_LINK_RE, content, contentPath, from, to))

IncludePass ==
    /\ pc = "include"
    /\ pc' = "done"
    /\ Pass("include", WIKI_INCLUDE_RE,
            RunPass("include", WIKI_INCLUDE_RE, content, contentPath, from, to))

\* rename called again: the target of the last rename is renamed
RenameAgain ==
    /\ pc = "done"
    /\ round < MaxRenames
    /\ from' = to
    /\ to' \in { AbsolutePathNew(t) : t \in LaterTos }
    /\ round' = round + 1
    /\ pc' = "md"
    /\ prev' = <<>>
    /\ log' = <<>>
    /\ UNCHANGED <<content, contentPath, probe>>

Next == MdPass \/ WikiPass \/ IncludePass \/ RenameAgain

Spec == Init /\ [][Next]_vars

----------------------------------------------------------------------------
(* Reading the history of a rename: the texts and the matches of its passes *)

PassNames == <<"md", "wiki", "include">>

PassIdx(r) == CHOOSE k \in 1..3 : PassNames[k] = r.pass

\* the text pass k wrote, for a pass that has run
TextAfter(k) == IF k < Len(prev) THEN prev[k + 1] ELSE content

PassLog(k) == SelectSeq(log, LAMBDA r : r.pass = PassNames[k])

Recs == { log[i] : i \in 1..Len(log) }

\* the text a match covered and the text written in its place
Matched(r) == SubSeq(prev[PassIdx(r)], r.s, r.e - 1)

Emitted(r) == SubSeq(TextAfter(PassIdx(r)), r.os, r.oe - 1)

Pipe(r) == StartsWith(r.right, <<"|">>)

\* where the prefix and path text of a rewritten link lies in the text
\* written: after the left delimiter, before the right one and its space
WrittenFrom(r) == r.os + Len(r.left)

WrittenTo(r) == r.oe - Len(r.right) - (IF Pipe(r) THEN 1 ELSE 0)

Written(r) == SubSeq(TextAfter(PassIdx(r)), WrittenFrom(r), WrittenTo(r) - 1)

\* the link the matcher reads back from a written prefix and path text
WrittenLink(r) ==
    IF PrefixAt(Written(r), 1) # None /\ Len(Written(r)) > Len(PrefixAt(Written(r), 1)) + 1
    THEN LinkNew(PrefixAt(Written(r), 1),
                 SubSeq(Written(r), Len(PrefixAt(Written(r), 1)) + 2, Len(Written(r))))
    ELSE LinkNew(None, Written(r))

UnderRoot(p) == StartsWith(p, WikiRoot \o <<"/">>)

----------------------------------------------------------------------------
(* Claims about replace_links, checked under Spec *)

\* C1: every rewritten link, read back and resolved in the same WikiContext,
\* is a Location equal (extension-tolerant) to `to`, for every `to` under
\* the wiki root.
C1_RoundTrip ==
    \A r \in Recs :
        r.rewritten /\ UnderRoot(to)
            => AbsolutePathEq(get_absolute_path(WrittenLink(r), contentPath), to)

\* C2: when no match of the three passes resolves to `from` the document is
\* returned as it was read; in every pass the text between the matches and
\* the matches that do not resolve to `from` are copied through unchanged.
C2_Between(k, L, i) ==
    SubSeq(prev[k], IF i = 1 THEN 1 ELSE L[i - 1].e,
                    IF i > Len(L) THEN Len(prev[k]) ELSE L[i].s - 1)
    = SubSeq(TextAfter(k), IF i = 1 THEN 1 ELSE L[i - 1].oe,
                           IF i > Len(L) THEN Len(TextAfter(k)) ELSE L[i].os - 1)

C2_Frame ==
    /\ (pc = "done" /\ \A r \in Recs : ~r.rewritten) => content = prev[1]
    /\ \A k \in 1..Len(prev) :
          /\ \A i \in 1..(Len(PassLog(k)) + 1) : C2_Between(k, PassLog(k), i)
          /\ \A r \in Recs :
                (PassIdx(r) = k /\ ~r.rewritten) => Emitted(r) = Matched(r)

C2_Witness ==
    /\ pc = "done"
    /\ \A r \in Recs : ~r.rewritten
    /\ Len(log) >= 3
    /\ \E r \in Recs : Trim(r.path) # r.path

\* C3: each link is a match of its own: the left capture of a Markdown match
\* holds no "](" but its own, the right capture of a wiki link or of a
\* transclusion no opening delimiter and no closing delimiter but its own;
\* so a document of several links is rewritten link by link: the result is
\* the links rewritten one by one, put together again.  Stated for a `to`
\* under the wiki root.
RECURSIVE SplitLinks(_, _, _)
SplitLinks(text, i, cur) ==
    IF i > Len(text) THEN <<cur>>
    ELSE IF text[i] = " " /\ cur # <<>> /\ cur[Len(cur)] \in {"]", ")", "}", "\n"}
         THEN <<cur>> \o SplitLinks(text, i + 1, <<>>)
         ELSE SplitLinks(text, i + 1, Append(cur, text[i]))

RECURSIVE LinkByLink(_)
LinkByLink(parts) ==
    IF Len(parts) = 1 THEN replace_links(parts[1], contentPath, from, to)
    ELSE replace_links(parts[1], contentPath, from, to) \o <<" ">>
         \o LinkByLink(Tail(parts))

C3_EachLinkItsOwnMatch ==
    UnderRoot(to) =>
        /\ \A r \in Recs :
              /\ r.pass = "md" =>
                    ~Contains(SubSeq(r.left, 1, Len(r.left) - 2), <<"]", "(">>)
              /\ r.pass = "wiki" =>
                    /\ ~Contains(r.right, <<"[", "[">>)
                    /\ ~Contains(SubSeq(r.right, 1, Len(r.right) - 2), <<"]", "]">>)
              /\ r.pass = "include" =>
                    /\ ~Contains(r.right, <<"{", "{">>)
                    /\ ~Contains(SubSeq(r.right, 1, Len(r.right) - 2), <<"}", "}">>)
        /\ (pc = "done" /\ round = 1)
              => content = LinkByLink(SplitLinks(prev[1], 1, <<>>))

\* C6: the prefix and path text written for a link that resolves to `from`:
\* "diary:" and the base name of `to` without extension when `to` has a
\* directory named diary above it; otherwise the path of `to` without
\* extension relative to the directory of the document, after the original
\* prefix and ":" when that prefix is file or local.  `to` is a Location,
\* an absolute path.
DropExtension(name) ==
    IF LastDot(name, Len(name)) > 1
    THEN SubSeq(name, 1, LastDot(name, Len(name)) - 1)
    ELSE name

InDiaryArea(t) == \E i \in 1..(Len(Segs(t)) - 1) : Segs(t)[i] = Diary

\* number of leading segments two paths share
RECURSIVE Common(_, _)
Common(a, b) ==
    IF a # <<>> /\ b # <<>> /\ Head(a) = Head(b)
    THEN 1 + Common(Tail(a), Tail(b)) ELSE 0

\* the way from directory dir to target: up to the last directory they
\* share, then down
RelativeTo(target, dir) ==
    JoinSegs([i \in 1..(Len(dir) - Common(target, dir)) |-> DotDot]
             \o SubSeq(target, Common(target, dir) + 1, Len(target)))

WithoutExtension(segs) ==
    [i \in 1..Len(segs) |-> IF i = Len(segs) THEN DropExtension(segs[i]) ELSE segs[i]]

DocumentDir(cp) == SubSeq(Segs(cp), 1, Len(Segs(cp)) - 1)

C6_Expected(r) ==
    IF InDiaryArea(to)
    THEN Diary \o <<":">> \o DropExtension(Segs(to)[Len(Segs(to))])
    ELSE (IF r.prefix \in {File, Local} THEN r.prefix \o <<":">> ELSE <<>>)
         \o RelativeTo(WithoutExtension(Segs(to)), DocumentDir(contentPath))

C6_WrittenPath ==
    \A r \in Recs : (r.rewritten /\ IsAbsolute(to)) => Written(r) = C6_Expected(r)

C6_Witness ==
    /\ IsAbsolute(to) /\ ~InDiaryArea(to)
    /\ \E r \in Recs : r.rewritten /\ r.prefix = Diary
                       /\ Written(r) = <<".", ".", "/", "r">>

\* C7: a rewritten link keeps its left and right captures character for
\* character; between them stands the new prefix and path text, followed by
\* one space exactly when the right capture begins with "|".  A later rename
\* of the new target leaves one space before the "|", not two.
C7_Delimiters ==
    /\ \A r \in Recs :
          r.rewritten =>
              /\ SubSeq(Emitted(r), 1, Len(r.left)) = r.left
              /\ SubSeq(Emitted(r), Len(Emitted(r)) - Len(r.right) + 1,
                        Len(Emitted(r))) = r.right
              /\ Len(Emitted(r)) = Len(r.left) + Len(Replaced(r, contentPath, to))
                                   + Len(r.right) + (IF Pipe(r) THEN 1 ELSE 0)
              /\ Pipe(r) => Emitted(r)[Len(Emitted(r)) - Len(r.right)] = " "
    /\ ~Contains(content, <<" ", " ", "|">>)

C7_Witness ==
    /\ round = 2
    /\ \E r \in Recs :
          /\ r.rewritten /\ Pipe(r)
          /\ r.path # Trim(r.path)
          /\ Written(r) = <<"z">>

\* C8: a link that resolves to `from` while no relative path to `to` can be
\* computed is written back exactly as it was matched.  Stated for the
\* links that name a file (a path that is not empty).
C8_FallbackKeepsText ==
    \A r \in Recs :
        (/\ r.rewritten
         /\ Trim(r.path) # <<>>
         /\ ~is_in_diary(to)
         /\ ~get_relative_path(to, contentPath).some)
            => Emitted(r) = Matched(r)

\* C9: a link whose path is empty after trimming resolves to the directory
\* of the document and is never replaced, `from` being a file.  Stated for
\* a `to` under the wiki root.
C9_EmptyPathNeverReplaced ==
    \A r \in Recs :
        (Trim(r.path) = <<>> /\ UnderRoot(to)) =>
            /\ get_absolute_path(LinkNew(r.prefix, r.path), contentPath)
                   = JoinSegs(<<<<>>>> \o DocumentDir(contentPath))
            /\ ~r.rewritten

\* C10: the passes run in the order Markdown, wiki link, transclusion, and
\* no match of a pass overlaps the prefix and path text the pass before it
\* wrote.  Stated for a `to` under the wiki root.
C10_NoLaterMatchOverRewrite ==
    /\ \A i \in 1..(Len(log) - 1) : PassIdx(log[i]) <= PassIdx(log[i + 1])
    /\ \A r1 \in Recs : \A r2 \in Recs :
          (r1.rewritten /\ PassIdx(r2) = PassIdx(r1) + 1 /\ UnderRoot(to))
              => (r2.e <= WrittenFrom(r1) \/ r2.s >= WrittenTo(r1))

----------------------------------------------------------------------------
(* The comparator alone: two Locations are built and compared *)

\* /w/a, /w/a.m, /w/ab.m, /w/a.t, /w/b/a.m, /w/b/a, /w/a.m.t, /w/.m, /w/a., /, /w/b/../a.m
Locations ==
    { <<"/", "w", "/", "a">>,
      <<"/", "w", "/", "a", ".", "m">>,
      <<"/", "w", "/", "a", "b", ".", "m">>,
      <<"/", "w", "/", "a", ".", "t">>,
      <<"/", "w", "/", "b", "/", "a", ".", "m">>,
      <<"/", "w", "/", "b", "/", "a">>,
      <<"/", "w", "/", "a", ".", "m", ".", "t">>,
      <<"/", "w", "/", ".", "m">>,
      <<"/", "w", "/", "a", ".">>,
      <<"/">>,
      <<"/", "w", "/", "b", "/", ".", ".", "/", "a", ".", "m">> }

InitEq ==
    /\ content = <<>> /\ prev = <<>> /\ log = <<>> /\ pc = "probe" /\ round = 0
    /\ contentPath = <<>> /\ from = <<>> /\ to = <<>>
    /\ \E a \in Locations, b \in Locations :
          probe = [kind |-> "eq", a |-> AbsolutePathNew(a), b |-> AbsolutePathNew(b),
                   done |-> FALSE, equal |-> FALSE]

\* a == b
Compare ==
    /\ probe.kind = "eq" /\ ~probe.done
    /\ probe' = [probe EXCEPT !.done = TRUE,
                              !.equal = AbsolutePathEq(probe.a, probe.b)]
    /\ UNCHANGED <<content, prev, log, pc, round, contentPath, from, to>>

SpecEq == InitEq /\ [][Compare]_vars

\* C4: two Locations that both carry an extension are equal exactly when
\* the paths are identical; when one of them carries none they are equal
\* exactly when the paths are identical with the extension removed from
\* both.  So /w/a and /w/a.m equal /w/a.m, neither equals /w/ab.m, and
\* /w/a.t does not equal /w/a.m.
LastName(p) == IF Segs(p) = <<>> THEN <<>> ELSE Segs(p)[Len(Segs(p))]

Carries(p) == DropExtension(LastName(p)) # LastName(p)

Stripped(p) == SubSeq(p, 1, Len(p) - Len(LastName(p)) + Len(DropExtension(LastName(p))))

C4_Is(p, q) == probe.a = p /\ probe.b = q

C4_ExtensionTolerant ==
    (probe.kind = "eq" /\ probe.done) =>
        /\ probe.equal = (IF Carries(probe.a) /\ Carries(probe.b)
                          THEN probe.a = probe.b
                          ELSE Stripped(probe.a) = Stripped(probe.b))
        /\ C4_Is(<<"/", "w", "/", "a">>, <<"/", "w", "/", "a", ".", "m">>) => probe.equal
        /\ C4_Is(<<"/", "w", "/", "a", ".", "m">>, <<"/", "w", "/", "a", ".", "m">>) => probe.equal
        /\ C4_Is(<<"/", "w", "/", "a">>, <<"/", "w", "/", "a", "b", ".", "m">>) => ~probe.equal
        /\ C4_Is(<<"/", "w", "/", "a", ".", "m">>, <<"/", "w", "/", "a", "b", ".", "m">>) => ~probe.equal
        /\ C4_Is(<<"/", "w", "/", "a", ".", "t">>, <<"/", "w", "/", "a", ".", "m">>) => ~probe.equal

C4_Witness ==
    /\ probe.kind = "eq" /\ probe.done /\ probe.equal
    /\ C4_Is(<<"/", "w", "/", "a">>, <<"/", "w", "/", "a", ".", "m">>)

----------------------------------------------------------------------------
(* The resolver alone: a captured prefix and path are resolved *)

\* the paths a link can hold: "a", "/a", "a.m", "../a", "./a", "b/a.t", "/b/../a.m", "a/", "//a", " ", " a ", "/diary/a", "../../../a"
LinkPaths ==
    { <<"a">>,
      <<"/", "a">>,
      <<"a", ".", "m">>,
      <<".", ".", "/", "a">>,
      <<".", "/", "a">>,
      <<"b", "/", "a", ".", "t">>,
      <<"/", "b", "/", ".", ".", "/", "a", ".", "m">>,
      <<"a", "/">>,
      <<"/", "/", "a">>,
      <<" ">>,
      <<" ", "a", " ">>,
      <<"/", "d", "i", "a", "r", "y", "/", "a">>,
      <<".", ".", "/", ".", ".", "/", ".", ".", "/", "a">> }

InitResolve ==
    /\ content = <<>> /\ prev = <<>> /\ log = <<>> /\ pc = "probe" /\ round = 0
    /\ contentPath \in ContentPaths /\ from = <<>> /\ to = <<>>
    /\ \E w \in {None, Diary, File, Local}, p \in LinkPaths :
          probe = [kind |-> "resolve", prefix |-> w, path |-> p,
                   done |-> FALSE, location |-> <<>>]

\* self.get_absolute_path(&Link::new(prefix, path))
Resolve ==
    /\ probe.kind = "resolve" /\ ~probe.done
    /\ probe' = [probe EXCEPT
                    !.done = TRUE,
                    !.location = get_absolute_path(LinkNew(probe.prefix, probe.path),
                                                   contentPath)]
    /\ UNCHANGED <<content, prev, log, pc, round, contentPath, from, to>>

SpecResolve == InitResolve /\ [][Resolve]_vars

\* C5: the base of a link is wiki root + diary for the prefix diary, the
\* wiki root for any other link with a leading "/", the directory of the
\* document for the rest; the Location is the base joined with the path
\* without its leading "/", with no "." or ".." segment and no trailing
\* slash left, the extension as written.
C5_Base ==
    IF probe.prefix = Diary THEN Segs(WikiRoot) \o <<Diary>>
    ELSE IF StartsWith(Trim(probe.path), <<"/">>) THEN Segs(WikiRoot)
    ELSE DocumentDir(contentPath)

RemoveAt(segs, i) == SubSeq(segs, 1, i - 1) \o SubSeq(segs, i + 1, Len(segs))

\* "." segments removed, then each ".." together with the segment before
\* it; a ".." at the root stays at the root
RECURSIVE Normal(_)
Normal(segs) ==
    IF \E i \in 1..Len(segs) : segs[i] = Dot
    THEN Normal(RemoveAt(segs, CHOOSE i \in 1..Len(segs) : segs[i] = Dot))
    ELSE IF \E i \in 1..Len(segs) : segs[i] = DotDot
    THEN LET i == CHOOSE i \in 1..Len(segs) :
                     segs[i] = DotDot /\ \A j \in 1..(i - 1) : segs[j] # DotDot
         IN  IF i = 1 THEN Normal(Tail(segs))
             ELSE Normal(RemoveAt(RemoveAt(segs, i), i - 1))
    ELSE segs

C5_PlainLastName ==
    /\ Segs(Trim(probe.path)) # <<>>
    /\ LastName(Trim(probe.path)) \notin {Dot, DotDot}

C5_Resolution ==
    (probe.kind = "resolve" /\ probe.done) =>
        /\ Segs(probe.location) = Normal(C5_Base \o Segs(Trim(probe.path)))
        /\ probe.location = <<"/">> \o JoinSegs(Segs(probe.location))
        /\ \A i \in 1..Len(Segs(probe.location)) :
              Segs(probe.location)[i] \notin {Dot, DotDot}
        /\ C5_PlainLastName =>
              LastName(probe.location) = LastName(Trim(probe.path))

C5_Witness ==
    /\ probe.kind = "resolve" /\ probe.done
    /\ probe.prefix = Diary
    /\ probe.path = <<"/", "a">>
    /\ probe.location = <<"/", "w", "/", "d", "i", "a", "r", "y", "/", "a">>

====
